---- MODULE Spec2Model ----
(***************************************************************************)
(* A model of the websocket session actor of itrainer-ws                   *)
(* (src/src/server.rs: MyWebSocket) and of the way sessions are placed on  *)
(* the workers of the HTTP server (src/src/main.rs).                       *)
(*                                                                         *)
(* Text is modelled as a sequence of one-character strings, so that the    *)
(* search for the first ':' and the slicing of the prefix are computed.    *)
(* Time is discrete (one unit = one second).  Instead of absolute          *)
(* instants the model keeps, per session, the value of                     *)
(* Instant::now().duration_since(hb) and the time left until the next      *)
(* deadline of the heartbeat interval; both saturate at a named bound.     *)
(* Two variables record what the code does not store: the frames that wait *)
(* in the stream of a session while its worker is busy (inbox), and the    *)
(* number of pings sent since hb was last assigned (probes).               *)
(***************************************************************************)
EXTENDS Integers, Sequences, FiniteSets, TLC

\* ------------------------------------------------------------- constants

HEARTBEAT_INTERVAL == 5

CLIENT_TIMEOUT == 10

WORKERS == 2

\* saturation of the elapsed time since the last liveness update
ElapsedCap == 16

\* saturation of the lateness of an interval deadline (worker blocked)
LateCap == 2

\* saturation of the count of probes sent since the last liveness update
ProbeCap == 3

\* frames the transport holds for a session whose worker is busy
QueueCap == 2

Sessions == {"s1", "s2"}

Min(a, b) == IF a < b THEN a ELSE b

Max(a, b) == IF a > b THEN a ELSE b

\* ------------------------------------------------------------------ text

COLON == ":"

\* text.contains(":")
Contains(text, ch) == \E i \in 1..Len(text) : text[i] = ch

\* text.find(":"): 0-based index of the first occurrence (caller checks Contains)
Find(text, ch) == (CHOOSE i \in 1..Len(text) :
                      /\ text[i] = ch
                      /\ \A j \in 1..(i - 1) : text[j] # ch) - 1

\* &text[..delimiter_index + 1]
SliceTo(text, end) == SubSeq(text, 1, end)

\* let prefix = &text[..delimiter_index + 1]
PrefixOf(text) == SliceTo(text, Find(text, COLON) + 1)

\* the key stripped of its prefix: &text[delimiter_index + 1..]
RedisKeySuffix(text) ==
    IF Contains(text, COLON)
    THEN SubSeq(text, Find(text, COLON) + 2, Len(text))
    ELSE text

\* let reids_key = text.as_ref()
RedisKey(text) == text

AM == <<"a", "m", ":">>

AMQ == <<"a", "m", "q", ":">>

\* the arm chosen by text.starts_with("am") / ("amq"), no delimiter needed
ArmStartsWith(text) ==
    IF Len(text) >= 3 /\ SubSeq(text, 1, 3) = <<"a", "m", "q">> THEN "amq"
    ELSE IF Len(text) >= 2 /\ SubSeq(text, 1, 2) = <<"a", "m">> THEN "am"
    ELSE IF Contains(text, COLON) THEN "unknown"
    ELSE "nodelim"

\* which arm of `match prefix` a text frame takes
Arm(text) ==
    IF ~Contains(text, COLON) THEN "nodelim"
    ELSE IF PrefixOf(text) = AM THEN "am"
    ELSE IF PrefixOf(text) = AMQ THEN "amq"
    ELSE "unknown"

\* format!("{}:{}", reids_key, value)
FormatOneColon(key, value) == key \o <<":">> \o value

\* format!("{}::{}", reids_key, value)
Format(key, value) == key \o <<":", ":">> \o value

\* --------------------------------------------------- AnimationMetadata

\* JSON values as they stand in a store entry; an integer literal is
\* either one that fits an i32 or one that does not
JStr(s) == [ty |-> "str", s |-> s, n |-> 0]

JInt(n) == [ty |-> "int", s |-> "", n |-> n]

JBigInt == [ty |-> "bigint", s |-> "", n |-> 0]

JNull == [ty |-> "null", s |-> "", n |-> 0]

\* a store entry: either a JSON object (its members in textual order) or
\* text that is no JSON object
JObject(members) == [kind |-> "object", members |-> members]

JGarbage == [kind |-> "garbage", members |-> <<>>]

\* Option<String>
None == [some |-> FALSE, v |-> ""]

Some(v) == [some |-> TRUE, v |-> v]

\* positions of the members of an object carrying a given key
Members(e, k) == {i \in 1..Len(e.members) : e.members[i][1] = k}

Member(e, k) == e.members[CHOOSE i \in Members(e, k) : TRUE][2]

\* #[derive(Deserialize)] struct AnimationMetadata { name: String,
\* repeat: i32, text: Option<String> }: unknown members are ignored, a
\* repeated known member and a missing name or repeat are errors, a
\* missing or null text is None
FromStrOk(e) ==
    /\ e.kind = "object"
    /\ Cardinality(Members(e, "name")) = 1
    /\ Member(e, "name").ty = "str"
    /\ Cardinality(Members(e, "repeat")) = 1
    /\ Member(e, "repeat").ty = "int"
    /\ Cardinality(Members(e, "text")) <= 1
    /\ (Members(e, "text") # {} => Member(e, "text").ty \in {"str", "null"})

\* serde_json::from_str::<AnimationMetadata>(json_string) on success
FromStr(e) ==
    [name |-> Member(e, "name").s,
     repeat |-> Member(e, "repeat").n,
     text |-> IF Members(e, "text") # {} /\ Member(e, "text").ty = "str"
              THEN Some(Member(e, "text").s)
              ELSE None]

Quote(s) == "\"" \o s \o "\""

\* serde_json::to_string of one AnimationMetadata, as a sequence of tokens
RecordToString(r) ==
    <<"{", Quote("name"), ":", Quote(r.name), ",",
      Quote("repeat"), ":", ToString(r.repeat), ",",
      Quote("text"), ":", IF r.text.some THEN Quote(r.text.v) ELSE "null",
      "}">>

RECURSIVE JoinRecords(_)
JoinRecords(values) ==
    IF Len(values) = 0 THEN <<>>
    ELSE IF Len(values) = 1 THEN RecordToString(values[1])
    ELSE RecordToString(values[1]) \o <<",">> \o JoinRecords(Tail(values))

\* serde_json::to_string(&values)
ToJsonString(values) == <<"[">> \o JoinRecords(values) \o <<"]">>

\* the entries collected from the back: value.iter().rev()
MapCollectReversed(value) ==
    [i \in 1..Len(value) |-> FromStr(value[Len(value) + 1 - i])]

\* value.iter().map(|json_string| from_str(json_string).expect(..)).collect()
\* (only called when every entry deserializes)
MapCollect(value) == [i \in 1..Len(value) |-> FromStr(value[i])]

\* whether the map panics on some entry
AllParse(value) == \A i \in 1..Len(value) : FromStrOk(value[i])

\* ------------------------------------------------ sample texts and store

T_AM_USER == <<"a", "m", ":", "u", "s", "e", "r", ":", "4", "2">>

T_AM_NOKEY == <<"a", "m", ":", "n", "o", "n", "e">>

T_AM_LIST == <<"a", "m", ":", "l">>

T_AM_ONLY == <<"a", "m", ":">>

T_AMQ_PLAYLIST == <<"a", "m", "q", ":", "p", "l", "a", "y", "l", "i", "s", "t", ":", "7">>

T_AMQ_MIX == <<"a", "m", "q", ":", "m", "i", "x">>

T_AMQ_BAD == <<"a", "m", "q", ":", "b", "a", "d">>

T_AMQ_NOKEY == <<"a", "m", "q", ":", "n", "o", "n", "e">>

T_AMQ_STR == <<"a", "m", "q", ":", "s">>

T_XYZ == <<"x", "y", "z", ":", "f", "o", "o">>

T_COLON_AM == <<":", "a", "m", ":", "x">>

T_X_AM == <<"x", ":", "a", "m", ":", "y">>

T_UPPER == <<"A", "M", ":", "x">>

T_NODELIM == <<"h", "e", "l", "l", "o">>

T_AM_NODELIM == <<"a", "m">>

K_USER == <<"u", "s", "e", "r", ":", "4", "2">>

V_ALICE == <<"A", "l", "i", "c", "e">>

V_COLONS == <<"a", ":", ":", "b">>

T_EMPTY == <<>>

\* ---------------------------------------------------------------- store

\* values held by the backing store
RString(s) == [ty |-> "string", s |-> s, l |-> <<>>]

RList(l) == [ty |-> "list", s |-> <<>>, l |-> l]

RNil == [ty |-> "nil", s |-> <<>>, l |-> <<>>]

E_SQUAT == JObject(<< <<"name", JStr("squat")>>, <<"repeat", JInt(3)>>,
                      <<"text", JNull>> >>)

\* members in another order, no text member
E_LUNGE == JObject(<< <<"repeat", JInt(2)>>, <<"name", JStr("lunge")>> >>)

\* an unknown member
E_PLANK == JObject(<< <<"name", JStr("plank")>>, <<"id", JInt(7)>>,
                      <<"repeat", JInt(1)>>, <<"text", JStr("hold")>> >>)

\* no name
E_NONAME == JObject(<< <<"repeat", JInt(3)>> >>)

\* repeat is a string
E_BADTYPE == JObject(<< <<"name", JStr("x")>>, <<"repeat", JStr("3")>> >>)

\* repeat does not fit an i32
E_OVERFLOW == JObject(<< <<"name", JStr("x")>>, <<"repeat", JBigInt>> >>)

\* name twice
E_DUP == JObject(<< <<"name", JStr("a")>>, <<"name", JStr("b")>>,
                    <<"repeat", JInt(1)>> >>)

\* the store of the first concrete scenario: Alice under the bare key
StoreBareKey == (K_USER :> RString(V_ALICE))

\* a store keyed by the whole request text
StoreMain ==
    (T_AM_USER :> RString(V_ALICE)) @@
    (T_AM_ONLY :> RString(V_COLONS)) @@
    (T_AM_LIST :> RList(<<E_SQUAT>>)) @@
    (T_AMQ_PLAYLIST :> RList(<<E_SQUAT>>)) @@
    (T_AMQ_MIX :> RList(<<E_LUNGE, E_SQUAT, E_PLANK>>)) @@
    (T_AMQ_BAD :> RList(<<E_SQUAT, E_NONAME>>)) @@
    (T_AMQ_STR :> RString(V_ALICE))

\* lists whose entries fail to deserialize at different positions
StoreBadLists ==
    (T_AMQ_PLAYLIST :> RList(<<E_BADTYPE, E_SQUAT>>)) @@
    (T_AMQ_MIX :> RList(<<E_LUNGE, E_OVERFLOW, E_PLANK>>)) @@
    (T_AMQ_BAD :> RList(<<JGarbage>>)) @@
    (T_AMQ_STR :> RList(<<E_PLANK, E_PLANK, E_DUP>>)) @@
    (T_AM_USER :> RString(<<>>))

\* the stores a behaviour can run against, by name
StoreNames == {"bare", "main", "bad"}

StoreOf(name) ==
    IF name = "bare" THEN StoreBareKey
    ELSE IF name = "main" THEN StoreMain
    ELSE StoreBadLists

Lookup(st, key) == IF key \in DOMAIN st THEN st[key] ELSE RNil

\* the outcome of a store call: a reply or an error
Ok(v) == [ok |-> TRUE, v |-> v]

Err == [ok |-> FALSE, v |-> <<>>]

\* con.get::<&str, String>(key): nil does not convert to String, a list is
\* a WRONGTYPE error
Get(st, key) ==
    IF Lookup(st, key).ty = "string" THEN Ok(Lookup(st, key).s) ELSE Err

\* lrange of a store in which an absent key is an error, as for get
LRangeAbsentErr(st, key, start, stop) ==
    IF Lookup(st, key).ty # "list" THEN Err
    ELSE Ok(Lookup(st, key).l)

\* redis list indices: negative ones count from the end
ListIndex(len, i) == IF i < 0 THEN Max(len + i, 0) ELSE i

\* con.lrange(key, start, stop): an absent key is an empty list, a string
\* is a WRONGTYPE error
LRange(st, key, start, stop) ==
    IF Lookup(st, key).ty = "string" THEN Err
    ELSE Ok(SubSeq(Lookup(st, key).l,
                   ListIndex(Len(Lookup(st, key).l), start) + 1,
                   Min(ListIndex(Len(Lookup(st, key).l), stop) + 1,
                       Len(Lookup(st, key).l))))

\* ------------------------------------------------------------- messages

Msg(t, data) == [t |-> t, data |-> data]

NoMsg == Msg("None", <<>>)

CommandTexts == {T_AM_USER, T_AM_NOKEY, T_AM_LIST, T_AM_ONLY,
                 T_AMQ_PLAYLIST, T_AMQ_MIX, T_AMQ_BAD, T_AMQ_NOKEY, T_AMQ_STR}

OtherTexts == {T_XYZ, T_COLON_AM, T_X_AM, T_UPPER, T_NODELIM, T_AM_NODELIM,
               T_EMPTY, K_USER}

Payloads == {<<>>, <<"p">>}

Reasons == {<<>>, <<"1000">>}

\* what the transport can deliver to StreamHandler::handle
Messages ==
    {Msg("Text", t) : t \in CommandTexts \cup OtherTexts} \cup
    {Msg("Ping", p) : p \in Payloads} \cup
    {Msg("Pong", p) : p \in Payloads} \cup
    {Msg("Binary", p) : p \in Payloads} \cup
    {Msg("Close", r) : r \in Reasons} \cup
    {Msg("Continuation", <<>>), Msg("Nop", <<>>), Msg("ProtocolError", <<>>)}

\* the messages of the fair specification
FewMessages ==
    {Msg("Text", T_AM_USER), Msg("Text", T_AM_NOKEY), Msg("Text", T_XYZ),
     Msg("Ping", <<>>), Msg("Pong", <<>>), Msg("Binary", <<"p">>),
     Msg("Close", <<"1000">>), Msg("Nop", <<>>), Msg("ProtocolError", <<>>)}

\* the messages of the two-session specification
TwoMessages ==
    {Msg("Text", T_AM_USER), Msg("Text", T_AM_NOKEY), Msg("Text", T_AMQ_BAD)}

\* the messages of a client that sends no text frame
ControlMessages == {m \in Messages : m.t # "Text"}

\* the messages of the specification with waiting frames
QueueMessages ==
    {Msg("Text", T_AM_USER), Msg("Text", T_AMQ_PLAYLIST), Msg("Text", T_AM_NOKEY),
     Msg("Ping", <<"p">>), Msg("Close", <<>>)}

\* ---------------------------------------------------------------- state

VARIABLES
    pc,          \* per session: "new", "connecting", "active", "incall",
                 \* "stopped" (actor stopped) or "panicked" (handler unwound)
    hb_elapsed,  \* per session: Instant::now().duration_since(hb), saturated
    timer,       \* per session: time left to the next run_interval deadline
    redis_con,   \* per session: "None", "Some" or "Dropped"
    worker,      \* per session: the worker thread serving it, 0 when none
    pending,     \* per session: the store call its handler is blocked in
    db,          \* the backing store the server runs against (its name)
    ev,          \* the last step: who, what was handled, what was sent
    inbox,       \* per session: frames received while its worker was busy
    probes       \* per session: pings sent since hb was last assigned

vars == <<pc, hb_elapsed, timer, redis_con, worker, pending, db, ev, inbox,
          probes>>

\* the contents of the backing store
store == StoreOf(db)

NoCall == [text |-> <<>>, fate |-> "none"]

\* io tells whether a store call was answered ("answered") or failed for
\* want of the store ("unreachable")
Event(s, kind, msg, sent, op, io, end) ==
    [sess |-> s, kind |-> kind, msg |-> msg, sent |-> sent, op |-> op,
     io |-> io, end |-> end]

NoEvent == Event("", "none", NoMsg, <<>>, "none", "none", "ok")

\* the actor and its context are alive
Live(s) == pc[s] \in {"connecting", "active", "incall"}

\* a worker thread is inside a synchronous handler
Blocked(w) == \E s \in Sessions : worker[s] = w /\ pc[s] = "incall"

\* MyWebSocket::new()
New == [hb_elapsed |-> 0, redis_con |-> "None"]

\* dropping the actor drops its connection
DropCon(con) == IF con = "Some" THEN "Dropped" ELSE con

\* a panic that aborts the process takes every session down
PanicScopeProcess(s) == Sessions

\* the sessions a panic of session s takes down: the task polling the
\* websocket stream of s unwinds, nothing else
PanicScope(s) == {s}

Gone(S, to) ==
    /\ pc' = [t \in Sessions |-> IF t \in S THEN to ELSE pc[t]]
    /\ redis_con' = [t \in Sessions |->
                        IF t \in S THEN DropCon(redis_con[t]) ELSE redis_con[t]]
    /\ hb_elapsed' = [t \in Sessions |-> IF t \in S THEN 0 ELSE hb_elapsed[t]]
    /\ timer' = [t \in Sessions |-> IF t \in S THEN 0 ELSE timer[t]]
    /\ worker' = [t \in Sessions |-> IF t \in S THEN 0 ELSE worker[t]]
    /\ pending' = [t \in Sessions |-> IF t \in S THEN NoCall ELSE pending[t]]
    /\ inbox' = [t \in Sessions |-> IF t \in S THEN <<>> ELSE inbox[t]]
    /\ probes' = [t \in Sessions |-> IF t \in S THEN 0 ELSE probes[t]]

\* .expect(..) on an Err: the handler panics
Panic(s) == Gone(PanicScope(s), "panicked")

\* a stop that leaves the fields of the actor, its handle included, alive
StopHandleKept(s) ==
    /\ pc' = [pc EXCEPT ![s] = "stopped"]
    /\ UNCHANGED <<hb_elapsed, timer, redis_con, worker, pending, inbox, probes>>

\* ctx.stop(): the actor stops, its context and fields are dropped
Stop(s) == Gone({s}, "stopped")

InitWith(stores) ==
    /\ pc = [s \in Sessions |-> "new"]
    /\ hb_elapsed = [s \in Sessions |-> 0]
    /\ timer = [s \in Sessions |-> 0]
    /\ redis_con = [s \in Sessions |-> "None"]
    /\ worker = [s \in Sessions |-> 0]
    /\ pending = [s \in Sessions |-> NoCall]
    /\ db \in stores
    /\ ev = NoEvent
    /\ inbox = [s \in Sessions |-> <<>>]
    /\ probes = [s \in Sessions |-> 0]

\* echo_ws: ws::start(MyWebSocket::new(), &req, stream) on worker w
Connect(s, w) ==
    /\ pc[s] = "new"
    /\ ~Blocked(w)
    /\ pc' = [pc EXCEPT ![s] = "connecting"]
    /\ hb_elapsed' = [hb_elapsed EXCEPT ![s] = New.hb_elapsed]
    /\ redis_con' = [redis_con EXCEPT ![s] = New.redis_con]
    /\ worker' = [worker EXCEPT ![s] = w]
    /\ ev' = Event(s, "connect", NoMsg, <<>>, "none", "none", "ok")
    /\ UNCHANGED <<timer, pending, db, inbox, probes>>

\* the Err of get_connection() dropped: the actor goes on without a handle
ConnectFailedIgnored(s) ==
    /\ pc' = [pc EXCEPT ![s] = "active"]
    /\ timer' = [timer EXCEPT ![s] = HEARTBEAT_INTERVAL]
    /\ ev' = Event(s, "started", NoMsg, <<>>, "none", "unreachable", "ok")
    /\ UNCHANGED <<hb_elapsed, redis_con, worker, pending, inbox, probes>>

\* get_connection().expect("Failed to get Redis connection") on an Err:
\* started panics with the interval registered and no handle stored
ConnectFailed(s) ==
    /\ Panic(s)
    /\ ev' = Event(s, "started", NoMsg, <<>>, "none", "unreachable", "panic")

\* Actor::started: start the heartbeat, then connect to the store
Started(s, connected) ==
    /\ pc[s] = "connecting"
    /\ ~Blocked(worker[s])
    /\ IF connected
       THEN /\ pc' = [pc EXCEPT ![s] = "active"]
            /\ timer' = [timer EXCEPT ![s] = HEARTBEAT_INTERVAL]
            /\ redis_con' = [redis_con EXCEPT ![s] = "Some"]
            /\ ev' = Event(s, "started", NoMsg, <<>>, "none", "answered", "ok")
            /\ UNCHANGED <<hb_elapsed, worker, pending, inbox, probes>>
       ELSE ConnectFailed(s)
    /\ UNCHANGED db

\* the handler returns and the session goes on
Continue(s, msg, sent, op, io) ==
    /\ ev' = Event(s, "frame", msg, sent, op, io, "ok")
    /\ UNCHANGED <<redis_con, worker, timer>>

\* self.hb = Instant::now()
Touch(s) ==
    /\ hb_elapsed' = [hb_elapsed EXCEPT ![s] = 0]
    /\ probes' = [probes EXCEPT ![s] = 0]

\* the newest of the waiting frames
NewestFrame(q) == q[Len(q)]

\* the frame the stream yields next: the oldest of the waiting ones
NextFrame(q) == Head(q)

\* the frame handled leaves the stream
Take(s) ==
    inbox' = [inbox EXCEPT ![s] = IF inbox[s] = <<>> THEN <<>> ELSE Tail(inbox[s])]

\* the Ping arm answering with an empty pong
HandlePingEmptyPong(s, msg) ==
    /\ Touch(s)
    /\ Take(s)
    /\ Continue(s, msg, <<Msg("Pong", <<>>)>>, "none", "none")
    /\ UNCHANGED <<pc, pending>>

\* Ok(ws::Message::Ping(msg)) => { self.hb = Instant::now(); ctx.pong(&msg) }
HandlePing(s, msg) ==
    /\ Touch(s)
    /\ Take(s)
    /\ Continue(s, msg, <<Msg("Pong", msg.data)>>, "none", "none")
    /\ UNCHANGED <<pc, pending>>

\* Ok(ws::Message::Pong(_)) => { self.hb = Instant::now() }
HandlePong(s, msg) ==
    /\ Touch(s)
    /\ Take(s)
    /\ Continue(s, msg, <<>>, "none", "none")
    /\ UNCHANGED <<pc, pending>>

\* Ok(ws::Message::Binary(bin)) => ctx.binary(bin)
HandleBinary(s, msg) ==
    /\ Take(s)
    /\ Continue(s, msg, <<Msg("Binary", msg.data)>>, "none", "none")
    /\ UNCHANGED <<pc, pending, hb_elapsed, probes>>

\* the Close arm without ctx.stop()
HandleCloseNoStop(s, msg) ==
    /\ Take(s)
    /\ Continue(s, msg, <<Msg("Close", msg.data)>>, "none", "none")
    /\ UNCHANGED <<pc, pending, hb_elapsed, probes>>

\* Ok(ws::Message::Close(reason)) => { ctx.close(reason); ctx.stop() }
HandleClose(s, msg) ==
    /\ Stop(s)
    /\ ev' = Event(s, "frame", msg, <<Msg("Close", msg.data)>>, "none", "none", "stop")

\* the catch-all arm closing the connection as the Close arm does
HandleOtherSendsClose(s, msg) ==
    /\ Stop(s)
    /\ ev' = Event(s, "frame", msg, <<Msg("Close", <<>>)>>, "none", "none", "stop")

\* _ => ctx.stop()
HandleOther(s, msg) ==
    /\ Stop(s)
    /\ ev' = Event(s, "frame", msg, <<>>, "none", "none", "stop")

\* the store operation of an arm
OpOf(arm) == IF arm = "am" THEN "get" ELSE IF arm = "amq" THEN "lrange" ELSE "none"

\* Ok(ws::Message::Text(text)): the handler up to the point where it
\* blocks in con.get / con.lrange, or to its end when it makes no call
HandleText(s, msg, fate) ==
    IF redis_con[s] = "Some" /\ Arm(msg.data) \in {"am", "amq"}
    THEN /\ pc' = [pc EXCEPT ![s] = "incall"]
         /\ pending' = [pending EXCEPT ![s] = [text |-> msg.data, fate |-> fate]]
         /\ ev' = Event(s, "call", msg, <<>>, OpOf(Arm(msg.data)), "none", "blocked")
         /\ Take(s)
         /\ UNCHANGED <<hb_elapsed, redis_con, worker, timer, probes>>
    ELSE /\ Take(s)
         /\ Continue(s, msg, <<>>, "none", "none")
         /\ UNCHANGED <<pc, pending, hb_elapsed, probes>>

\* StreamHandler::handle on an Active session whose worker is free; the
\* frames that waited for the worker come first, in the order of the stream
Handle(s, msg, fate) ==
    /\ pc[s] = "active"
    /\ ~Blocked(worker[s])
    /\ inbox[s] # <<>> => msg = NextFrame(inbox[s])
    /\ CASE msg.t = "Ping" -> HandlePing(s, msg)
         [] msg.t = "Pong" -> HandlePong(s, msg)
         [] msg.t = "Text" -> HandleText(s, msg, fate)
         [] msg.t = "Binary" -> HandleBinary(s, msg)
         [] msg.t = "Close" -> HandleClose(s, msg)
         [] OTHER -> HandleOther(s, msg)
    /\ UNCHANGED db

\* the reply of the store to the call of an arm, or an error when the
\* store cannot be reached
StoreReply(st, arm, key, reachable) ==
    IF ~reachable THEN Err
    ELSE IF arm = "am" THEN Get(st, key)
    ELSE LRange(st, key, 0, -1)

\* whether every .expect(..) of the arm passes on this reply
ArmSucceeds(arm, reply) ==
    /\ reply.ok
    /\ arm = "amq" => AllParse(reply.v)

\* the message the arm builds from the reply
ArmMessage(arm, key, reply) ==
    IF arm = "am" THEN Format(key, reply.v)
    ELSE Format(key, ToJsonString(MapCollect(reply.v)))

\* the rest of the text handler with entries that fail to deserialize
\* skipped (filter_map) instead of failing the whole list
StoreReturnPartial(s, reachable) ==
    /\ pc[s] = "incall"
    /\ pending[s].fate = "reply"
    /\ LET text == pending[s].text
           arm == Arm(text)
           key == RedisKey(text)
           reply == StoreReply(store, arm, key, reachable)
           kept == IF reply.ok /\ arm = "amq"
                   THEN Ok(SelectSeq(reply.v, FromStrOk))
                   ELSE reply
       IN  IF reply.ok
           THEN /\ pc' = [pc EXCEPT ![s] = "active"]
                /\ pending' = [pending EXCEPT ![s] = NoCall]
                /\ Continue(s, Msg("Text", text),
                            <<Msg("Text", ArmMessage(arm, key, kept))>>, OpOf(arm),
                            "answered")
                /\ UNCHANGED <<hb_elapsed, inbox, probes>>
           ELSE /\ Panic(s)
                /\ ev' = Event(s, "frame", Msg("Text", text), <<>>, OpOf(arm),
                            IF reachable THEN "answered" ELSE "unreachable",
                            "panic")
    /\ UNCHANGED db

\* the rest of the text handler once the store call returns
StoreReturn(s, reachable) ==
    /\ pc[s] = "incall"
    /\ pending[s].fate = "reply"
    /\ LET text == pending[s].text
           arm == Arm(text)
           key == RedisKey(text)
           reply == StoreReply(store, arm, key, reachable)
       IN  IF ArmSucceeds(arm, reply)
           THEN /\ pc' = [pc EXCEPT ![s] = "active"]
                /\ pending' = [pending EXCEPT ![s] = NoCall]
                /\ Continue(s, Msg("Text", text),
                            <<Msg("Text", ArmMessage(arm, key, reply))>>, OpOf(arm),
                            "answered")
                /\ UNCHANGED <<hb_elapsed, inbox, probes>>
           ELSE /\ Panic(s)
                /\ ev' = Event(s, "frame", Msg("Text", text), <<>>, OpOf(arm),
                            IF reachable THEN "answered" ELSE "unreachable",
                            "panic")
    /\ UNCHANGED db

\* Instant::now().duration_since(act.hb) > CLIENT_TIMEOUT
Expired(elapsed) == elapsed > CLIENT_TIMEOUT

\* the run_interval callback of hb, at a deadline of the interval
Tick(s) ==
    /\ pc[s] = "active"
    /\ timer[s] <= 0
    /\ ~Blocked(worker[s])
    /\ IF Expired(hb_elapsed[s])
       THEN /\ Stop(s)
            /\ ev' = Event(s, "tick", NoMsg, <<>>, "none", "none", "stop")
       ELSE /\ timer' = [timer EXCEPT ![s] = timer[s] + HEARTBEAT_INTERVAL]
            /\ probes' = [probes EXCEPT ![s] = Min(probes[s] + 1, ProbeCap)]
            /\ ev' = Event(s, "tick", NoMsg, <<Msg("Ping", <<>>)>>, "none", "none", "ok")
            /\ UNCHANGED <<pc, hb_elapsed, redis_con, worker, pending, inbox>>
    /\ UNCHANGED db

\* what a free worker serves before its clock is read again: the first
\* poll of a new actor, a deadline of the interval that has passed and a
\* frame that waited for the worker
Urgent == \E s \in Sessions :
              /\ ~Blocked(worker[s])
              /\ \/ pc[s] = "connecting"
                 \/ pc[s] = "active" /\ timer[s] <= 0
                 \/ pc[s] = "active" /\ inbox[s] # <<>>

\* one unit of time passes
Advance ==
    /\ ~Urgent
    /\ hb_elapsed' = [s \in Sessions |->
                         IF Live(s) THEN Min(hb_elapsed[s] + 1, ElapsedCap)
                         ELSE hb_elapsed[s]]
    /\ timer' = [s \in Sessions |->
                    IF pc[s] \in {"active", "incall"}
                    THEN Max(timer[s] - 1, 0 - LateCap)
                    ELSE timer[s]]
    /\ ev' = Event("", "advance", NoMsg, <<>>, "none", "none", "ok")
    /\ UNCHANGED <<pc, redis_con, worker, pending, db, inbox, probes>>

\* a frame reaches the server while the worker of its session is inside a
\* synchronous handler: it waits in the stream of the session
Arrive(s, msg) ==
    /\ pc[s] \in {"active", "incall"}
    /\ Blocked(worker[s])
    /\ Len(inbox[s]) < QueueCap
    /\ inbox' = [inbox EXCEPT ![s] = Append(inbox[s], msg)]
    /\ ev' = Event(s, "arrive", msg, <<>>, "none", "none", "ok")
    /\ UNCHANGED <<pc, hb_elapsed, timer, redis_con, worker, pending, db, probes>>

\* whether a store call is answered
Fates == {"reply", "hang"}

\* one step of the sessions S, whose clients send the messages M and
\* whose store calls meet the fates F
Step(S, M, F) ==
    \/ \E s \in S, w \in 1..WORKERS : Connect(s, w)
    \/ \E s \in S, c \in BOOLEAN : Started(s, c)
    \/ \E s \in S, m \in M, f \in F : Handle(s, m, f)
    \/ \E s \in S, r \in BOOLEAN : StoreReturn(s, r)
    \/ \E s \in S : Tick(s)
    \/ Advance

\* one session, every message, every store
Next == Step({"s1"}, Messages, Fates)

Spec == InitWith(StoreNames) /\ [][Next]_vars

\* one session and a few messages, with the fairness of the runtime: time
\* passes, a new actor is started, a store call that is answered returns,
\* and the interval is polled whenever the handler has returned, however
\* many frames are waiting (strong fairness: a client that keeps the
\* handler busy does not starve the timer)
NextFair == Step({"s1"}, FewMessages, Fates)

Fairness ==
    /\ WF_vars(Advance)
    /\ SF_vars(Tick("s1"))
    /\ WF_vars(\E c \in BOOLEAN : Started("s1", c))
    /\ WF_vars(\E r \in BOOLEAN : StoreReturn("s1", r))

SpecFair == InitWith({"main"}) /\ [][NextFair]_vars /\ Fairness

\* two sessions on the workers of the server, sending commands
NextTwo == Step(Sessions, TwoMessages, {"reply"})

SpecTwo == InitWith({"main"}) /\ [][NextTwo]_vars

\* one session whose client sends no text frame: no store call is made
NextHeartbeat ==
    \/ \E w \in 1..WORKERS : Connect("s1", w)
    \/ \E c \in BOOLEAN : Started("s1", c)
    \/ \E m \in ControlMessages : Handle("s1", m, "reply")
    \/ Tick("s1")
    \/ Advance

SpecHeartbeat == InitWith({"main"}) /\ [][NextHeartbeat]_vars

\* one session whose client goes on sending while a store call is
\* outstanding
NextQueue ==
    \/ Step({"s1"}, QueueMessages, {"reply"})
    \/ \E m \in QueueMessages : Arrive("s1", m)

SpecQueue == InitWith({"main"}) /\ [][NextQueue]_vars

\* ================================================================ claims

\* text begins with the characters of p
StartsWith(text, p) == Len(text) >= Len(p) /\ SubSeq(text, 1, Len(p)) = p

\* the last step completed the handling of a text frame
TextHandled == ev.kind = "frame" /\ ev.msg.t = "Text"

\* C1: a text frame beginning "am:", handled by an Active session whose
\* store holds a scalar v under the whole frame text and answers the call,
\* makes the session send exactly one frame, the text frame
\* <frame text> ++ "::" ++ v.
C1_AmReply ==
    (/\ TextHandled
     /\ StartsWith(ev.msg.data, AM)
     /\ Lookup(store, ev.msg.data).ty = "string"
     /\ ev.io = "answered")
    => /\ ev.sent =
            <<Msg("Text", ev.msg.data \o <<":", ":">> \o Lookup(store, ev.msg.data).s)>>
       /\ ev.end = "ok"

\* C1 witness: an "am:" request answered from a value that itself holds "::"
C1_Witness ==
    /\ TextHandled
    /\ ev.msg.data = T_AM_ONLY
    /\ store = StoreMain
    /\ ev.io = "answered"
    /\ Len(ev.sent) = 1

\* the payload of a response: what follows <key> ++ "::"
Payload(data, key) == SubSeq(data, Len(key) + 3, Len(data))

\* positions of the records of a serialized list
Opens(p) == {i \in 1..Len(p) : p[i] = "{"}

NthOpen(p, n) == CHOOSE i \in Opens(p) : Cardinality({j \in Opens(p) : j <= i}) = n

\* the token standing for member k of the n-th record of the list
FieldToken(p, n, k) ==
    p[(CHOOSE j \in NthOpen(p, n)..Len(p) :
          /\ p[j] = Quote(k) /\ p[j + 1] = ":"
          /\ \A i \in NthOpen(p, n)..(j - 1) : ~(p[i] = Quote(k) /\ p[i + 1] = ":"))
      + 2]

\* the token a store entry asks for member k
EntryToken(e, k) ==
    IF Members(e, k) = {} \/ Member(e, k).ty = "null" THEN "null"
    ELSE IF Member(e, k).ty = "int" THEN ToString(Member(e, k).n)
    ELSE Quote(Member(e, k).s)

\* the list the store holds under a key (an absent key is the empty list)
StoreList(key) == Lookup(store, key).l

\* C2: a text frame beginning "amq:", handled by an Active session whose
\* store list under the whole frame text has entries that all deserialize,
\* is answered by a single text frame <frame text> ++ "::" ++ list, whose
\* list has as many records as the store list has entries, the i-th record
\* carrying the name, repeat and text of the i-th entry.
C2_AmqOrder ==
    (/\ TextHandled
     /\ StartsWith(ev.msg.data, AMQ)
     /\ Lookup(store, ev.msg.data).ty \in {"list", "nil"}
     /\ ev.io = "answered"
     /\ \A i \in 1..Len(StoreList(ev.msg.data)) : FromStrOk(StoreList(ev.msg.data)[i]))
    => /\ Len(ev.sent) = 1
       /\ ev.sent[1].t = "Text"
       /\ StartsWith(ev.sent[1].data, ev.msg.data \o <<":", ":">>)
       /\ LET p == Payload(ev.sent[1].data, ev.msg.data)
              l == StoreList(ev.msg.data)
          IN  /\ Cardinality(Opens(p)) = Len(l)
              /\ \A i \in 1..Len(l) : \A k \in {"name", "repeat", "text"} :
                     FieldToken(p, i, k) = EntryToken(l[i], k)

\* C2 witness: a list of three different entries was answered
C2_Witness ==
    /\ TextHandled
    /\ ev.msg.data = T_AMQ_MIX
    /\ store = StoreMain
    /\ Len(ev.sent) = 1
    /\ Cardinality(Opens(Payload(ev.sent[1].data, T_AMQ_MIX))) = 3

\* C3: handling a text frame that has no ':' or whose text up to its first
\* ':' is neither "am:" nor "amq:" performs no store operation, sends no
\* frame and leaves the session Active with its liveness timestamp and its
\* store handle unchanged.
C3_UnknownTextIgnored ==
    [][\A s \in Sessions :
          (/\ ev'.sess = s
           /\ ev'.kind \in {"frame", "call"}
           /\ ev'.msg.t = "Text"
           /\ ~StartsWith(ev'.msg.data, AM)
           /\ ~StartsWith(ev'.msg.data, AMQ))
          => /\ ev'.kind = "frame"
             /\ ev'.sent = <<>>
             /\ ev'.op = "none"
             /\ ev'.io = "none"
             /\ pc[s] = "active" /\ pc'[s] = "active"
             /\ pending'[s] = NoCall
             /\ hb_elapsed'[s] = hb_elapsed[s]
             /\ redis_con'[s] = redis_con[s]
             /\ redis_con[s] = "Some"]_vars

\* C3 witness: ":am:x" was handled, some time after the last liveness update
C3_Witness ==
    /\ TextHandled
    /\ ev.msg.data = T_COLON_AM
    /\ pc[ev.sess] = "active"
    /\ hb_elapsed[ev.sess] > 0

\* C6 as stated: with Alice stored under "user:42" and nothing else, the
\* frame "am:user:42" is answered by "am:user:42::Alice".
C6_BareKeyScenario ==
    (/\ TextHandled
     /\ ev.msg.data = T_AM_USER
     /\ store = StoreBareKey
     /\ ev.io = "answered")
    => ev.sent = <<Msg("Text", T_AM_USER \o <<":", ":">> \o V_ALICE)>>

\* C6 amended: with Alice stored under "am:user:42", the whole request
\* text, the frame "am:user:42" is answered by "am:user:42::Alice".
C6_FullKeyScenario ==
    (/\ TextHandled
     /\ ev.msg.data = T_AM_USER
     /\ Lookup(store, T_AM_USER) = RString(V_ALICE)
     /\ ev.io = "answered")
    => /\ Len(ev.sent) = 1
       /\ ev.sent[1] = Msg("Text",
             <<"a", "m", ":", "u", "s", "e", "r", ":", "4", "2", ":", ":",
               "A", "l", "i", "c", "e">>)

\* C6 witness: the request was answered from the store keyed by request text
C6_Witness ==
    /\ TextHandled
    /\ ev.msg.data = T_AM_USER
    /\ Lookup(store, T_AM_USER) = RString(V_ALICE)
    /\ ev.io = "answered"
    /\ ev.end = "ok"

\* C5: handling a close frame sends exactly a close frame carrying the
\* received reason and leaves the session Terminated with its handle
\* dropped; from then on the session stays Terminated and no step of it
\* (no parsing, no store call, no answer) happens, whatever is sent to it.
C5_CloseEchoedAndFinal ==
    [][\A s \in Sessions :
          /\ (ev'.sess = s /\ ev'.kind = "frame" /\ ev'.msg.t = "Close")
             => /\ ev'.sent = <<Msg("Close", ev'.msg.data)>>
                /\ pc[s] = "active"
                /\ pc'[s] = "stopped"
                /\ redis_con'[s] = "Dropped"
          /\ pc[s] = "stopped"
             => /\ pc'[s] = "stopped"
                /\ pending'[s] = NoCall
                /\ redis_con'[s] = redis_con[s]
                /\ (ev'.sess = s => ev' = ev)]_vars

\* C5 witness: a close frame with a reason was handled
C5_Witness ==
    /\ ev.kind = "frame"
    /\ ev.msg = Msg("Close", <<"1000">>)
    /\ pc[ev.sess] = "stopped"

\* a session that ended by a panic of started, before it held a handle
StartFailed(s) == pc[s] = "panicked" /\ redis_con[s] = "None"

\* C8: when acquiring the store handle fails in started, the session goes
\* from Connecting to a failed state without sending anything, with no
\* handle and no heartbeat interval; from then on it stays failed, never
\* Active, and no step of it (frame, tick, store call) happens.
C8_StartFailsClosed ==
    [][\A s \in Sessions :
          /\ (ev'.sess = s /\ ev'.kind = "started" /\ ev'.io = "unreachable")
             => /\ pc[s] = "connecting"
                /\ StartFailed(s)'
                /\ ev'.sent = <<>>
                /\ timer'[s] = 0
          /\ StartFailed(s)
             => /\ StartFailed(s)'
                /\ timer'[s] = 0
                /\ (ev'.sess = s => ev' = ev)]_vars

\* C8 witness: started failed and time has passed since
C8_Witness ==
    /\ StartFailed("s1")
    /\ ev.kind = "advance"

\* the other sessions keep every field of their state in this step
OthersUntouched(s) ==
    \A t \in Sessions \ {s} :
        /\ pc'[t] = pc[t]
        /\ hb_elapsed'[t] = hb_elapsed[t]
        /\ timer'[t] = timer[t]
        /\ redis_con'[t] = redis_con[t]
        /\ worker'[t] = worker[t]
        /\ pending'[t] = pending[t]

C4_StaleSessionEnds ==
    \A s \in {"s1"} :
        (Live(s) /\ hb_elapsed[s] > CLIENT_TIMEOUT)
        ~> (\/ ~Live(s) /\ redis_con[s] # "Some"
            \/ hb_elapsed[s] <= CLIENT_TIMEOUT)

\* C9 as stated: a session in a store call that never returns is still
\* ended by the heartbeat timeout and its store handle released: the
\* interval has a deadline every HEARTBEAT_INTERVAL, so the session is
\* gone by the time CLIENT_TIMEOUT + HEARTBEAT_INTERVAL have passed since
\* its last liveness update.
C9_HungCallTimedOut ==
    \A s \in Sessions :
        (pc[s] = "incall" /\ pending[s].fate = "hang")
        => hb_elapsed[s] <= CLIENT_TIMEOUT + HEARTBEAT_INTERVAL

\* C10 as stated: while a session is in a store call, every other Active
\* session can have a frame handled, and its heartbeat tick fires when due.
C10_OthersUnaffected ==
    \A s \in Sessions : \A t \in Sessions \ {s} :
        (pc[s] = "incall" /\ pc[t] = "active")
        => /\ ENABLED Handle(t, Msg("Text", T_AM_USER), "reply")
           /\ timer[t] <= 0 => ENABLED Tick(t)

\* the last step handled a ping or a pong of session s
LivenessFrame(e, s) ==
    e.sess = s /\ e.kind = "frame" /\ e.msg.t \in {"Ping", "Pong"}

\* the effect of the steps of a session on the time since its last
\* liveness update: the handling of a ping or a pong sets it to 0, every
\* other step of the session (text frame, binary frame, tick) leaves it,
\* and otherwise it changes with the clock only
LivenessOnlyByPingPong ==
    \A s \in Sessions :
        (pc[s] \in {"active", "incall"} /\ Live(s)')
        => /\ LivenessFrame(ev', s) => hb_elapsed'[s] = 0
           /\ (ev'.sess = s /\ ~LivenessFrame(ev', s))
              => hb_elapsed'[s] = hb_elapsed[s]
           /\ hb_elapsed'[s] # hb_elapsed[s]
              => \/ LivenessFrame(ev', s)
                 \/ /\ ev'.kind = "advance"
                    /\ hb_elapsed'[s] = Min(hb_elapsed[s] + 1, ElapsedCap)

\* C11 as stated: in an Active session hb is assigned only by the handling
\* of a ping or a pong, which sets it to the current time, while text
\* frames, binary frames and ticks leave it; so a session whose peer sends
\* no ping and no pong, whatever data frames it sends, is timed out: an
\* Active session comes to handle a ping or a pong, or it ends.
C11_DataFramesDoNotKeepAlive ==
    /\ [][LivenessOnlyByPingPong]_vars
    /\ \A s \in {"s1"} :
          (pc[s] = "active") ~> (LivenessFrame(ev, s) \/ ~Live(s))

\* C12: a step that handles no frame sends nothing, except the heartbeat
\* tick, which sends at most one ping with an empty payload; a pong is
\* sent only in the handling of a ping and carries its payload, a binary
\* frame only in the handling of a binary frame, with the same bytes and
\* no store operation, a text frame only in the handling of a text frame
\* beginning "am:" or "amq:", a close frame only in the handling of a close
\* frame, and no ping is sent in the handling of a frame.
C12_OutboundTraffic ==
    /\ ev.kind \notin {"frame", "tick"} => ev.sent = <<>>
    /\ ev.kind = "tick" => ev.sent \in {<<>>, <<Msg("Ping", <<>>)>>}
    /\ (ev.kind = "frame" /\ ev.msg.t = "Binary") => ev.op = "none"
    /\ ev.kind = "frame"
       => \A i \in 1..Len(ev.sent) :
             /\ ev.sent[i].t # "Ping"
             /\ ev.sent[i].t = "Pong" => ev.msg = Msg("Ping", ev.sent[i].data)
             /\ ev.sent[i].t = "Binary" => ev.msg = Msg("Binary", ev.sent[i].data)
             /\ ev.sent[i].t = "Text"
                => /\ ev.msg.t = "Text"
                   /\ StartsWith(ev.msg.data, AM) \/ StartsWith(ev.msg.data, AMQ)
             /\ ev.sent[i].t = "Close" => ev.msg.t = "Close"

\* C12 witness: a ping with a payload was answered
C12_Witness ==
    /\ ev.kind = "frame"
    /\ ev.msg = Msg("Ping", <<"p">>)
    /\ ev.sent = <<Msg("Pong", <<"p">>)>>

\* C13: when the store answers an "amq:" command with a list of which some
\* entry does not deserialize, the command fails as a whole: no frame is
\* sent for it, at whatever position the entry stands.
C13_NoPartialList ==
    (/\ TextHandled
     /\ StartsWith(ev.msg.data, AMQ)
     /\ ev.io = "answered"
     /\ Lookup(store, ev.msg.data).ty = "list"
     /\ \E i \in 1..Len(StoreList(ev.msg.data)) : ~FromStrOk(StoreList(ev.msg.data)[i]))
    => /\ ev.sent = <<>>
       /\ ev.end = "panic"

\* C13 witness: the third entry of a list failed after two good ones
C13_Witness ==
    /\ TextHandled
    /\ ev.msg.data = T_AMQ_STR
    /\ db = "bad"
    /\ ev.io = "answered"
    /\ ev.end = "panic"

\* C14: when the key of a command is absent from the store that answers,
\* an "am:" command sends nothing and ends the session, and an "amq:"
\* command sends the one text frame <frame text> ++ "::" ++ "[]" and leaves
\* the session Active.
C14_AbsentKey ==
    (/\ TextHandled
     /\ ev.io = "answered"
     /\ ev.msg.data \notin DOMAIN store)
    => /\ StartsWith(ev.msg.data, AM)
          => /\ ev.sent = <<>>
             /\ ev.end = "panic"
             /\ pc[ev.sess] = "panicked"
             /\ redis_con[ev.sess] = "Dropped"
       /\ StartsWith(ev.msg.data, AMQ)
          => /\ ev.sent = <<Msg("Text", ev.msg.data \o <<":", ":", "[", "]">>)>>
             /\ ev.end = "ok"
             /\ pc[ev.sess] = "active"

\* C14 witness: a list command for an absent key was answered
C14_Witness ==
    /\ TextHandled
    /\ ev.msg.data = T_AMQ_NOKEY
    /\ T_AMQ_NOKEY \notin DOMAIN store
    /\ Len(ev.sent) = 1

\* C15: a session becomes Terminated only by a heartbeat tick that sends
\* nothing or by the handling of a close frame, a protocol error or an
\* unsupported frame, and it is then left with its handle dropped, no
\* heartbeat deadline, no store call and no waiting frame; from then on it
\* stays so, and no step of it (tick, frame, return of a store call) happens.
C15_TerminatedIsSilent ==
    [][\A s \in Sessions :
          /\ (pc[s] # "stopped" /\ pc'[s] = "stopped")
             => /\ ev'.sess = s
                /\ ev'.end = "stop"
                /\ \/ ev'.kind = "tick" /\ ev'.sent = <<>>
                   \/ /\ ev'.kind = "frame"
                      /\ ev'.msg.t \notin {"Ping", "Pong", "Text", "Binary"}
                /\ redis_con'[s] = "Dropped"
                /\ timer'[s] = 0
                /\ pending'[s] = NoCall
                /\ inbox'[s] = <<>>
          /\ pc[s] = "stopped"
             => /\ pc'[s] = "stopped"
                /\ redis_con[s] = "Dropped" /\ redis_con'[s] = "Dropped"
                /\ timer'[s] = 0
                /\ pending'[s] = NoCall
                /\ ev'.sess # s]_vars

\* C15 witness: the heartbeat check ended the session
C15_Witness ==
    /\ ev.kind = "tick"
    /\ ev.end = "stop"
    /\ pc[ev.sess] = "stopped"
    /\ redis_con[ev.sess] = "Dropped"

\* C16 as stated: the heartbeat check tolerates exactly one missed probe.
\* A tick does not end a session whose peer has left fewer than two probes
\* unanswered since its last ping or pong, and the tick that follows the
\* second unanswered probe ends the session, however the last liveness
\* signal fell relative to the ticks.
C16_OneMissedProbeTolerated ==
    [][\A s \in Sessions :
          (ev'.sess = s /\ ev'.kind = "tick")
          => (ev'.end = "stop" <=> probes[s] >= 2)]_vars

\* C20 as stated: the handling of a ping or a pong never checks staleness:
\* arriving more than CLIENT_TIMEOUT after the last liveness update it
\* resets the timestamp and the session stays Active; no frame handler
\* other than the close and catch-all arms ends the session; a tick ends
\* the session exactly when it finds now - hb > CLIENT_TIMEOUT, and that
\* happens at most CLIENT_TIMEOUT + HEARTBEAT_INTERVAL after the last
\* liveness update.
C20_StalenessOnlyAtTick ==
    [][\A s \in Sessions :
          /\ (LivenessFrame(ev', s) /\ hb_elapsed[s] > CLIENT_TIMEOUT)
             => /\ pc'[s] = "active"
                /\ hb_elapsed'[s] = 0
          /\ (/\ ev'.sess = s
              /\ ev'.kind = "frame"
              /\ ev'.msg.t \in {"Ping", "Pong", "Text", "Binary"})
             => ev'.end # "stop"
          /\ (ev'.sess = s /\ ev'.kind = "tick")
             => /\ ev'.end = "stop" <=> hb_elapsed[s] > CLIENT_TIMEOUT
                /\ ev'.end = "stop"
                   => hb_elapsed[s] <= CLIENT_TIMEOUT + HEARTBEAT_INTERVAL]_vars

\* C17: while a store call of a session is outstanding, the only steps of
\* the session are the arrival of frames, which wait in arrival order and
\* are not handled, and the return of that call: no tick runs and no other
\* frame is handled. A session with waiting frames handles the oldest one
\* first, and a text frame is sent only on the return of the one call
\* outstanding, for the request of that call; so responses leave in the
\* order of their requests.
C17_OneCommandAtATime ==
    [][\A s \in Sessions :
          /\ (pc[s] = "incall" /\ ev'.sess = s)
             => \/ /\ ev'.kind = "arrive"
                   /\ pc'[s] = "incall"
                   /\ pending'[s] = pending[s]
                   /\ inbox'[s] = Append(inbox[s], ev'.msg)
                \/ /\ ev'.kind = "frame"
                   /\ ev'.msg = Msg("Text", pending[s].text)
                   /\ Live(s)' => inbox'[s] = inbox[s]
          /\ (/\ pc[s] = "active" /\ ev'.sess = s
              /\ ev'.kind \in {"frame", "call"} /\ inbox[s] # <<>>)
             => /\ ev'.msg = Head(inbox[s])
                /\ Live(s)' => inbox'[s] = Tail(inbox[s])
          /\ (/\ ev'.sess = s /\ ev'.kind = "frame"
              /\ \E i \in 1..Len(ev'.sent) : ev'.sent[i].t = "Text")
             => /\ pc[s] = "incall"
                /\ ev'.msg = Msg("Text", pending[s].text)
                /\ StartsWith(ev'.sent[1].data, pending[s].text)]_vars

\* C17 witness: a request was answered while two later frames, another
\* request and a ping, were waiting
C17_Witness ==
    /\ TextHandled
    /\ ev.msg.data = T_AM_USER
    /\ Len(ev.sent) = 1
    /\ inbox[ev.sess] = <<Msg("Text", T_AMQ_PLAYLIST), Msg("Ping", <<"p">>)>>

\* C18: the handling of a protocol error, a continuation frame or a no-op
\* frame sends nothing, performs no store operation and leaves the session
\* Terminated with its handle dropped; a close frame is sent only in the
\* handling of a close frame.
C18_OtherFramesStopSilently ==
    /\ (ev.kind = "frame" /\ ev.msg.t \in {"Continuation", "Nop", "ProtocolError"})
       => /\ ev.sent = <<>>
          /\ ev.op = "none"
          /\ ev.io = "none"
          /\ ev.end = "stop"
          /\ pc[ev.sess] = "stopped"
          /\ redis_con[ev.sess] = "Dropped"
    /\ (\E i \in 1..Len(ev.sent) : ev.sent[i].t = "Close")
       => /\ ev.kind = "frame"
          /\ ev.msg.t = "Close"

\* C18 witness: a protocol error ended the session
C18_Witness ==
    /\ ev.kind = "frame"
    /\ ev.msg.t = "ProtocolError"
    /\ pc[ev.sess] = "stopped"

\* C19: a session holds its store handle whenever it handles a frame or a
\* tick and as long as it is Active or in a store call; the handle changes
\* only from absent to present, in started, and from present to dropped
\* when the session ends. So no text frame is handled without a handle.
C19_HandlePresent ==
    [][\A s \in Sessions :
          /\ (ev'.sess = s /\ ev'.kind \in {"frame", "call", "tick", "arrive"})
             => redis_con[s] = "Some"
          /\ pc[s] \in {"active", "incall"} => redis_con[s] = "Some"
          /\ redis_con'[s] # redis_con[s]
             => \/ /\ redis_con[s] = "None" /\ redis_con'[s] = "Some"
                   /\ pc[s] = "connecting"
                   /\ ev'.sess = s /\ ev'.kind = "started"
                \/ /\ redis_con[s] = "Some" /\ redis_con'[s] = "Dropped"
                   /\ ~Live(s)']_vars

\* C19 witness: a text frame without delimiter was handled by a session
\* that holds its handle and has been probed
C19_Witness ==
    /\ TextHandled
    /\ ev.msg.data = T_NODELIM
    /\ redis_con[ev.sess] = "Some"
    /\ probes[ev.sess] > 0

====
